---------------------------- MODULE Spec2Model ----------------------------
(***************************************************************************)
(* The task-combinator engine of hypara.hpp: the named registry            *)
(* (TaskGroup) with its execute_* entry points and the composite policies  *)
(* hyp::All / hyp::Any / hyp::AnyWith / hyp::OrderWith with the aux::      *)
(* evaluators.                                                             *)
(*                                                                         *)
(* One policy evaluation is in flight at a time.  A candidate is a         *)
(* deterministic callable: its outcome is either a value or Fail (it       *)
(* throws).  A handle (shared_future) is "pending" until the candidate's   *)
(* activity finishes and "settled" afterwards; a settled handle is ready   *)
(* with the value or holds the exception.  Indices are 1-based in the      *)
(* model; every index handed back to the caller is converted to the        *)
(* 0-based index of the code.                                              *)
(***************************************************************************)
EXTENDS Integers, Sequences, FiniteSets, TLC

\* ------------------------------------------------------------------ bounds
MaxN == 2          \* largest number of registered candidates / units
MaxVal == 2        \* candidate values are 1..MaxVal
MaxTime == 1       \* the clock runs 0..MaxTime; timeouts are 0..MaxTime

Fail == 0                          \* outcome of a candidate that throws
Values == 1..MaxVal
Outs == Values \cup {Fail}
Names == {"a", "b"}
NameOrder == <<"a", "b">>

VARIABLES
    tasks,         \* tasks_: the registry, a sequence of [name, out]
    pc,            \* position of the calling thread
    op,            \* the entry point being evaluated
    timeout,       \* the timeout argument (0: none)
    condition,     \* the predicate argument: the set of values it accepts
    now,           \* steady_clock::now(), relative to the call
    deadline,      \* deadline / start + timeout
    futures,       \* futures[k]: "pending" or "settled"
    i,             \* loop index of the calling thread
    results,       \* results being collected by the calling thread
    mon_pc,        \* position of the monitor thread
    mon_i,         \* loop index of the monitor thread
    promise,       \* resPro / result_promise: the single result slot
    found,         \* std::atomic<bool> found
    result_index,  \* execute_any_with: std::optional<size_t> (0: nullopt)
    completed,     \* execute_any_with: bool completed
    ret,           \* what the call returned to its caller
    observed,      \* history: what the in-order scan saw at handle k
    broke,         \* history: index at which the scan hit the deadline
    first,         \* history: the first handle to settle (hyp::OrderWith)
    comparator,    \* the comparator argument of Best / execute_best
    fn             \* the continuation of a unit made by Task::then

vars == <<tasks, pc, op, timeout, condition, now, deadline, futures, i,
          results, mon_pc, mon_i, promise, found, result_index, completed,
          ret, observed, broke, first, comparator, fn>>

N == Len(tasks)

\* ------------------------------------------------------------- data shapes
NoRet == [kind |-> "none", idx |-> 0, name |-> "", val |-> 0, items |-> <<>>]
Nullopt == [NoRet EXCEPT !.kind = "nullopt"]
Raised == [NoRet EXCEPT !.kind = "raise"]
Pair(k, nm, v) == [NoRet EXCEPT !.kind = "pair", !.idx = k, !.name = nm, !.val = v]
List(s) == [NoRet EXCEPT !.kind = "list", !.items = s]
Entry_firstName(k) == [idx |-> k - 1, name |-> tasks[1].name, val |-> tasks[k].out]
Entry(k) == [idx |-> k - 1, name |-> tasks[k].name, val |-> tasks[k].out]

Unset == [state |-> "unset", idx |-> 0]

\* no handle has settled yet
NoFirst == 0

\* std::future_status of wait_for(0) on handle k
Ready(k) == futures[k] = "settled"
\* a settled handle holds a value (get returns) or an exception (get throws)
Throws(k) == tasks[k].out = Fail

Idle ==
    /\ pc = "idle" /\ op = "none" /\ timeout = 0 /\ condition = {}
    /\ now = 0 /\ deadline = 0 /\ futures = <<>> /\ i = 0 /\ results = <<>>
    /\ mon_pc = "none" /\ mon_i = 0 /\ promise = Unset /\ found = FALSE
    /\ result_index = 0 /\ completed = FALSE /\ ret = NoRet
    /\ observed = <<>> /\ broke = 0 /\ first = NoFirst
    /\ comparator = "" /\ fn = ""

Init == tasks = <<>> /\ Idle

\* ------------------------------------------------------------ environment
\* TaskGroup::add_function: tasks_.emplace_back(name, TaskType(fn))
add_function(nm, out) ==
    /\ pc = "idle"
    /\ N < MaxN
    /\ tasks' = Append(tasks, [name |-> nm, out |-> out])
    /\ UNCHANGED <<pc, op, timeout, condition, now, deadline, futures, i,
                   results, mon_pc, mon_i, promise, found, result_index,
                   completed, ret, observed, broke, first, comparator, fn>>

Launch_dropsLast == [k \in 1..(N - 1) |-> "pending"]

\* Task::run: one std::async activity per unit; all handles start pending
Launch == [k \in 1..N |-> "pending"]

\* the activity of candidate k finishes: its handle settles.  The history
\* variable first keeps, for the in-order composite, the first handle to
\* settle.
Settle(k) ==
    /\ pc # "idle"
    /\ k \in DOMAIN futures
    /\ futures[k] = "pending"
    /\ futures' = [futures EXCEPT ![k] = "settled"]
    /\ first' = IF op = "OrderWith" /\ first = NoFirst THEN k ELSE first
    /\ UNCHANGED <<tasks, pc, op, timeout, condition, now, deadline, i,
                   results, mon_pc, mon_i, promise, found, result_index,
                   completed, ret, observed, broke, comparator, fn>>

\* steady_clock advances while an evaluation is in flight; the clock is
\* read only by calls that were given a timeout
Tick ==
    /\ pc \notin {"idle", "done"}
    /\ timeout > 0
    /\ now < MaxTime
    /\ now' = now + 1
    /\ UNCHANGED <<tasks, pc, op, timeout, condition, deadline, futures, i,
                   results, mon_pc, mon_i, promise, found, result_index,
                   completed, ret, observed, broke, first, comparator, fn>>

\* the entry points whose handles are locals of the call (futures, funcs,
\* fut), destroyed when the call is left
HandlesInFrame == {"execute_any", "execute_any_with", "execute_all",
                   "execute_best", "execute_order_with", "All", "Best"}

\* the locals have been destroyed: the destructor of the last shared_future
\* of a std::async shared state blocks until the activity has finished.  The
\* evaluators of Any / AnyWith / OrderWith move the handles into their
\* detached thread
Released ==
    op \in HandlesInFrame => \A k \in DOMAIN futures : futures[k] # "pending"

Return_clearsRegistry ==
    /\ pc = "done"
    /\ Released
    /\ pc' = "idle" /\ op' = "none" /\ timeout' = 0 /\ condition' = {}
    /\ now' = 0 /\ deadline' = 0 /\ futures' = <<>> /\ i' = 0
    /\ results' = <<>> /\ mon_pc' = "none" /\ mon_i' = 0
    /\ promise' = Unset /\ found' = FALSE /\ result_index' = 0
    /\ completed' = FALSE /\ ret' = NoRet /\ observed' = <<>> /\ broke' = 0
    /\ first' = NoFirst /\ comparator' = "" /\ fn' = ""
    /\ tasks' = <<>>

\* the call is left and the caller takes the result; the registry stays as
\* it is
Return ==
    /\ pc = "done"
    /\ Released
    /\ pc' = "idle" /\ op' = "none" /\ timeout' = 0 /\ condition' = {}
    /\ now' = 0 /\ deadline' = 0 /\ futures' = <<>> /\ i' = 0
    /\ results' = <<>> /\ mon_pc' = "none" /\ mon_i' = 0
    /\ promise' = Unset /\ found' = FALSE /\ result_index' = 0
    /\ completed' = FALSE /\ ret' = NoRet /\ observed' = <<>> /\ broke' = 0
    /\ first' = NoFirst /\ comparator' = "" /\ fn' = ""
    /\ UNCHANGED tasks

\* --------------------------------------------------- TaskGroup::execute_all
\* entry: empty registry short-circuit, launch, deadline = now() + timeout
Call_execute_all(t) ==
    /\ pc = "idle"
    /\ op' = "execute_all"
    /\ timeout' = t
    /\ IF N = 0
         THEN /\ pc' = "done"
              /\ ret' = List(<<>>)
              /\ UNCHANGED <<futures, deadline, i, observed>>
         ELSE /\ pc' = "all_loop"
              /\ futures' = Launch
              /\ deadline' = now + t
              /\ i' = 1
              /\ observed' = [k \in 1..N |-> "unseen"]
              /\ UNCHANGED ret
    /\ UNCHANGED <<tasks, condition, now, results, mon_pc, mon_i, promise,
                   found, result_index, completed, broke, first, comparator, fn>>

\* what the scan saw at handle k: wait_for(0) timed out, get() threw, or
\* get() returned the value
AllSee(k) ==
    IF ~Ready(k) THEN "pending" ELSE IF Throws(k) THEN "failed" ELSE "ready"

AllAfter_clearOnFail(res, k) ==
    IF Ready(k) /\ Throws(k) THEN <<>>
    ELSE IF Ready(k) THEN Append(res, Entry(k)) ELSE res

\* results after the body of the loop ran for handle k: a ready handle's
\* value is emplaced with its name; a pending handle and a handle whose
\* get() throws (catch (...)) leave results as they are
AllAfter(res, k) ==
    IF Ready(k) /\ ~Throws(k) THEN Append(res, Entry(k)) ELSE res

AllOnDeadline_empty(res) == <<>>

\* the result on the timeout branch of the loop: break, then return results
AllOnDeadline(res) == res

\* where execute_all returns to: its caller, or the rest of execute_best
AfterAll == IF op = "execute_best" THEN "best_scan" ELSE "done"

\* one iteration of for (i = 0; i < tasks_.size(); i++)
execute_all_step ==
    /\ pc = "all_loop"
    /\ IF timeout > 0 /\ now >= deadline
         THEN /\ pc' = AfterAll
              /\ ret' = List(AllOnDeadline(results))
              /\ broke' = i
              /\ UNCHANGED <<i, results, observed>>
         ELSE /\ results' = AllAfter(results, i)
              /\ observed' = [observed EXCEPT ![i] = AllSee(i)]
              /\ i' = i + 1
              /\ IF i = N
                   THEN pc' = AfterAll /\ ret' = List(results')
                   ELSE pc' = "all_loop" /\ UNCHANGED ret
              /\ UNCHANGED broke
    /\ UNCHANGED <<tasks, op, timeout, condition, now, deadline, futures,
                   mon_pc, mon_i, promise, found, result_index, completed,
                   first, comparator, fn>>

\* ------------------------------------------------------------------ hyp::All
\* the composite All task: launch every unit, then fut.get() in launch order
CEntry(k) == [idx |-> k - 1, name |-> "", val |-> tasks[k].out]

Call_All ==
    /\ pc = "idle"
    /\ op' = "All"
    /\ IF N = 0
         THEN /\ pc' = "done"
              /\ ret' = List(<<>>)
              /\ UNCHANGED <<futures, i>>
         ELSE /\ pc' = "All_loop"
              /\ futures' = Launch
              /\ i' = 1
              /\ UNCHANGED ret
    /\ UNCHANGED <<tasks, timeout, condition, now, deadline, results, mon_pc,
                   mon_i, promise, found, result_index, completed, observed,
                   broke, first, comparator, fn>>

\* where the value of the All task goes: to the caller of get, or into the
\* continuation hyp::Best attached with then
AfterAllTask == IF op = "Best" THEN "Best_reduce" ELSE "done"

\* res.emplace_back(fut.get()): blocks until the handle settles; an
\* exception held by the handle leaves the lambda and fails the All task
All_step ==
    /\ pc = "All_loop"
    /\ Ready(i)
    /\ IF Throws(i)
         THEN /\ pc' = "done"
              /\ ret' = Raised
              /\ UNCHANGED <<i, results>>
         ELSE /\ results' = Append(results, CEntry(i))
              /\ i' = i + 1
              /\ IF i = N
                   THEN pc' = AfterAllTask /\ ret' = List(results')
                   ELSE pc' = "All_loop" /\ UNCHANGED ret
    /\ UNCHANGED <<tasks, op, timeout, condition, now, deadline, futures,
                   mon_pc, mon_i, promise, found, result_index, completed,
                   observed, broke, first, comparator, fn>>

\* --------------------------------------- hyp::Any / aux::getAnyResultPair
\* aux::transform launches every unit; the evaluator creates the promise,
\* the found flag and the detached scanning thread, then blocks on resfut
Call_Any ==
    /\ pc = "idle"
    /\ op' = "Any"
    /\ pc' = "Any_get"
    /\ futures' = Launch
    /\ mon_pc' = "scan"
    /\ mon_i' = 1
    /\ observed' = [k \in 1..N |-> "unseen"]
    /\ UNCHANGED <<tasks, timeout, condition, now, deadline, i, results,
                   promise, found, result_index, completed, ret, broke, first, comparator, fn>>

\* does the scan of getAnyResultPair claim handle k: wait_for(1ms) reports
\* ready and get() returns a value (a held exception is caught and skipped)
AnyClaims(k) == Ready(k) /\ ~Throws(k)

getAnyResultPair_step_unguarded ==
    /\ op = "Any"
    /\ mon_pc = "scan"
    /\ mon_i <= N
    /\ observed' = [observed EXCEPT ![mon_i] = AllSee(mon_i)]
    /\ promise' = IF AnyClaims(mon_i)
                    THEN [state |-> "value", idx |-> mon_i]
                    ELSE promise
    /\ mon_i' = mon_i + 1
    /\ mon_pc' = IF mon_i = N THEN "exit" ELSE "scan"
    /\ UNCHANGED <<tasks, pc, op, timeout, condition, now, deadline, futures,
                   i, results, found, result_index, completed, ret, broke,
                   first, comparator, fn>>

\* one iteration of the single pass for (i = 0; i < count; i++), or the
\* tail after the pass: set_exception("All tasks failed ...")
getAnyResultPair_step ==
    /\ op = "Any"
    /\ mon_pc = "scan"
    /\ IF mon_i <= N
         THEN /\ observed' = [observed EXCEPT ![mon_i] = AllSee(mon_i)]
              /\ IF AnyClaims(mon_i) /\ ~found
                   THEN /\ found' = TRUE
                        /\ promise' = [state |-> "value", idx |-> mon_i]
                        /\ mon_pc' = "exit"
                        /\ UNCHANGED mon_i
                   ELSE /\ mon_i' = mon_i + 1
                        /\ UNCHANGED <<found, promise, mon_pc>>
         ELSE /\ mon_pc' = "exit"
              /\ found' = TRUE
              /\ promise' = IF found THEN promise
                            ELSE [state |-> "exception", idx |-> 0]
              /\ UNCHANGED <<mon_i, observed>>
    /\ UNCHANGED <<tasks, pc, op, timeout, condition, now, deadline, futures,
                   i, results, result_index, completed, ret, broke, first, comparator, fn>>

\* return resfut.get(): the pair, or the stored exception rethrown
Any_get ==
    /\ pc = "Any_get"
    /\ promise.state # "unset"
    /\ pc' = "done"
    /\ ret' = IF promise.state = "value"
                THEN Pair(promise.idx - 1, "", tasks[promise.idx].out)
                ELSE Raised
    /\ UNCHANGED <<tasks, op, timeout, condition, now, deadline, futures, i,
                   results, mon_pc, mon_i, promise, found, result_index,
                   completed, observed, broke, first, comparator, fn>>

\* ------------------------------- hyp::AnyWith / aux::getAnyWithResultPair
NoMatch == [NoRet EXCEPT !.kind = "nomatch", !.idx = -1]

Call_AnyWith(c) ==
    /\ pc = "idle"
    /\ op' = "AnyWith"
    /\ condition' = c
    /\ pc' = "AnyWith_get"
    /\ futures' = Launch
    /\ mon_pc' = "scan"
    /\ mon_i' = 1
    /\ UNCHANGED <<tasks, timeout, now, deadline, i, results, promise, found,
                   result_index, completed, ret, observed, broke, first, comparator, fn>>

AnyWithClaims_anyValue(k) == Ready(k) /\ ~Throws(k)

\* ready, get() returns a value, and checkFun(res) holds
AnyWithClaims(k) == Ready(k) /\ ~Throws(k) /\ tasks[k].out \in condition

\* one iteration of the single pass, or the tail: set_value(-1, nullopt)
getAnyWithResultPair_step ==
    /\ op = "AnyWith"
    /\ mon_pc = "scan"
    /\ IF mon_i <= N
         THEN IF AnyWithClaims(mon_i) /\ ~found
                THEN /\ found' = TRUE
                     /\ promise' = [state |-> "value", idx |-> mon_i]
                     /\ mon_pc' = "exit"
                     /\ UNCHANGED mon_i
                ELSE /\ mon_i' = mon_i + 1
                     /\ UNCHANGED <<found, promise, mon_pc>>
         ELSE /\ mon_pc' = "exit"
              /\ found' = TRUE
              /\ promise' = IF found THEN promise
                            ELSE [state |-> "nomatch", idx |-> 0]
              /\ UNCHANGED mon_i
    /\ UNCHANGED <<tasks, pc, op, timeout, condition, now, deadline, futures,
                   i, results, result_index, completed, ret, observed, broke, first, comparator, fn>>

AnyWith_get ==
    /\ pc = "AnyWith_get"
    /\ promise.state # "unset"
    /\ pc' = "done"
    /\ ret' = IF promise.state = "value"
                THEN Pair(promise.idx - 1, "", tasks[promise.idx].out)
                ELSE NoMatch
    /\ UNCHANGED <<tasks, op, timeout, condition, now, deadline, futures, i,
                   results, mon_pc, mon_i, promise, found, result_index,
                   completed, observed, broke, first, comparator, fn>>

\* --------------------------------------------------- TaskGroup::execute_any
\* entry: empty short-circuit, launch, result_promise, detached polling thread
Call_execute_any_noEmptyCheck(t) ==
    /\ pc = "idle"
    /\ op' = "execute_any"
    /\ timeout' = t
    /\ pc' = "any_wait"
    /\ futures' = Launch
    /\ deadline' = now + t
    /\ mon_pc' = "poll"
    /\ mon_i' = 1
    /\ UNCHANGED <<tasks, condition, now, i, results, promise, found,
                   result_index, completed, ret, observed, broke, first,
                   comparator, fn>>

Call_execute_any(t) ==
    /\ pc = "idle"
    /\ op' = "execute_any"
    /\ timeout' = t
    /\ IF N = 0
         THEN /\ pc' = "done"
              /\ ret' = Nullopt
              /\ UNCHANGED <<futures, deadline, mon_pc, mon_i>>
         ELSE /\ pc' = "any_wait"
              /\ futures' = Launch
              /\ deadline' = now + t
              /\ mon_pc' = "poll"
              /\ mon_i' = 1
              /\ UNCHANGED ret
    /\ UNCHANGED <<tasks, condition, now, i, results, promise, found,
                   result_index, completed, observed, broke, first, comparator, fn>>

AnyPicks_always(k) == TRUE

\* does the polling thread of execute_any pick handle k:
\* futures[k].wait_for(0) == future_status::ready
AnyPicks(k) == Ready(k)

\* one probe of the polling loop; after the last index the thread sleeps
\* 5 ms and starts the next pass
execute_any_monitor ==
    /\ op = "execute_any"
    /\ mon_pc = "poll"
    /\ IF AnyPicks(mon_i)
         THEN /\ promise' = [state |-> "value", idx |-> mon_i]
              /\ mon_pc' = "exit"
              /\ UNCHANGED mon_i
         ELSE /\ mon_i' = (mon_i % N) + 1
              /\ UNCHANGED <<promise, mon_pc>>
    /\ UNCHANGED <<tasks, pc, op, timeout, condition, now, deadline, futures,
                   i, results, found, result_index, completed, ret, observed,
                   broke, first, comparator, fn>>

\* result_future became ready: index = result_future.get();
\* return make_pair(name, futures[*index].get()), where get() rethrows
execute_any_result ==
    /\ pc = "any_wait"
    /\ promise.state = "value"
    /\ pc' = "done"
    /\ ret' = IF Throws(promise.idx)
                THEN Raised
                ELSE Pair(promise.idx - 1, tasks[promise.idx].name,
                          tasks[promise.idx].out)
    /\ UNCHANGED <<tasks, op, timeout, condition, now, deadline, futures, i,
                   results, mon_pc, mon_i, promise, found, result_index,
                   completed, observed, broke, first, comparator, fn>>

\* result_future.wait_for(timeout) == future_status::timeout
execute_any_timeout ==
    /\ pc = "any_wait"
    /\ timeout > 0
    /\ now >= deadline
    /\ promise.state = "unset"
    /\ pc' = "done"
    /\ ret' = Nullopt
    /\ UNCHANGED <<tasks, op, timeout, condition, now, deadline, futures, i,
                   results, mon_pc, mon_i, promise, found, result_index,
                   completed, observed, broke, first, comparator, fn>>

\* ---------------------------------------------- TaskGroup::execute_any_with
\* entry: empty short-circuit, launch, mutex / cv / result_index / completed,
\* monitor thread
Call_execute_any_with(c, t) ==
    /\ pc = "idle"
    /\ op' = "execute_any_with"
    /\ timeout' = t
    /\ condition' = c
    /\ IF N = 0
         THEN /\ pc' = "done"
              /\ ret' = Nullopt
              /\ UNCHANGED <<futures, deadline, mon_pc, mon_i>>
         ELSE /\ pc' = "anywith_lock"
              /\ futures' = Launch
              /\ deadline' = now + t
              /\ mon_pc' = "get"
              /\ mon_i' = 1
              /\ UNCHANGED ret
    /\ UNCHANGED <<tasks, now, i, results, promise, found, result_index,
                   completed, observed, broke, first, comparator, fn>>

WaitEntry_noPredicate(done) == "anywith_wait"

\* where the caller stands after std::unique_lock lock(mutex) and the entry
\* of cv.wait(lock, pred) / cv.wait_for(lock, timeout, pred): pred, that is
\* completed, is tested under the mutex before the thread blocks
WaitEntry(done) == IF done THEN "anywith_woken" ELSE "anywith_wait"

\* the caller takes the mutex and enters the wait
execute_any_with_lock ==
    /\ pc = "anywith_lock"
    /\ pc' = WaitEntry(completed)
    /\ UNCHANGED <<tasks, op, timeout, condition, now, deadline, futures, i,
                   results, mon_pc, mon_i, promise, found, result_index,
                   completed, ret, observed, broke, first, comparator, fn>>

\* one iteration of the monitor loop: futures[i].get() blocks until the
\* handle settles; a value that satisfies condition is recorded under the
\* mutex (result_index, completed) and notify_one wakes the caller when it
\* is blocked in the wait, then the thread returns; when the loop ends
\* without a match the thread function just returns
execute_any_with_monitor ==
    /\ op = "execute_any_with"
    /\ mon_pc = "get"
    /\ Ready(mon_i)
    /\ IF ~Throws(mon_i) /\ tasks[mon_i].out \in condition
         THEN /\ result_index' = mon_i
              /\ completed' = TRUE
              /\ mon_pc' = "exit"
              /\ pc' = IF pc = "anywith_wait" THEN "anywith_woken" ELSE pc
              /\ UNCHANGED mon_i
         ELSE /\ mon_i' = mon_i + 1
              /\ mon_pc' = IF mon_i = N THEN "exit" ELSE "get"
              /\ UNCHANGED <<result_index, completed, pc>>
    /\ UNCHANGED <<tasks, op, timeout, condition, now, deadline, futures,
                   i, results, promise, found, ret, observed, broke, first, comparator, fn>>

\* cv.wait / cv.wait_for returned with completed true: join the monitor,
\* then return the recorded entry (or nullopt when no index was recorded)
execute_any_with_result ==
    /\ pc = "anywith_woken"
    /\ completed
    /\ mon_pc = "exit"
    /\ pc' = "done"
    /\ ret' = IF result_index # 0
                THEN Pair(result_index - 1, tasks[result_index].name,
                          tasks[result_index].out)
                ELSE Nullopt
    /\ UNCHANGED <<tasks, op, timeout, condition, now, deadline, futures, i,
                   results, mon_pc, mon_i, promise, found, result_index,
                   completed, observed, broke, first, comparator, fn>>

\* cv.wait_for returned false: completed = true; monitor.detach(); nullopt
execute_any_with_timeout ==
    /\ pc = "anywith_wait"
    /\ timeout > 0
    /\ now >= deadline
    /\ ~completed
    /\ completed' = TRUE
    /\ pc' = "done"
    /\ ret' = Nullopt
    /\ UNCHANGED <<tasks, op, timeout, condition, now, deadline, futures, i,
                   results, mon_pc, mon_i, promise, found, result_index,
                   observed, broke, first, comparator, fn>>

\* -------------------------------------------- TaskGroup::execute_order_with
\* entry: empty short-circuit, start = now(); nothing is launched yet: each
\* task is run inside the loop, when its turn comes
Call_execute_order_with(c, t) ==
    /\ pc = "idle"
    /\ op' = "execute_order_with"
    /\ timeout' = t
    /\ condition' = c
    /\ IF N = 0
         THEN /\ pc' = "done"
              /\ ret' = Nullopt
              /\ UNCHANGED <<futures, deadline, i, observed>>
         ELSE /\ pc' = "order_loop"
              /\ futures' = [k \in 1..N |-> "unstarted"]
              /\ deadline' = now + t
              /\ i' = 1
              /\ observed' = [k \in 1..N |-> "unseen"]
              /\ UNCHANGED ret
    /\ UNCHANGED <<tasks, now, results, mon_pc, mon_i, promise, found,
                   result_index, completed, broke, first, comparator, fn>>

OrderOnTimeout_pending(k) == Pair(k - 1, tasks[k].name, tasks[k].out)

\* what execute_order_with returns when the budget has run out at handle k:
\* return std::nullopt
OrderOnTimeout(k) == Nullopt

execute_order_with_run_freshBudget ==
    /\ pc = "order_loop"
    /\ pc' = "order_wait"
    /\ futures' = [futures EXCEPT ![i] = "pending"]
    /\ deadline' = now + timeout
    /\ UNCHANGED <<tasks, op, timeout, condition, now, i, results, mon_pc,
                   mon_i, promise, found, result_index, completed, ret,
                   observed, broke, first, comparator, fn>>

\* head of one iteration: the timeout check (now - start >= timeout returns
\* nullopt), then auto fut = task.run(args...)
execute_order_with_run ==
    /\ pc = "order_loop"
    /\ IF timeout > 0 /\ now >= deadline
         THEN /\ pc' = "done"
              /\ ret' = OrderOnTimeout(i)
              /\ broke' = i
              /\ UNCHANGED futures
         ELSE /\ pc' = "order_wait"
              /\ futures' = [futures EXCEPT ![i] = "pending"]
              /\ UNCHANGED <<ret, broke>>
    /\ UNCHANGED <<tasks, op, timeout, condition, now, deadline, i, results,
                   mon_pc, mon_i, promise, found, result_index, completed,
                   observed, first, comparator, fn>>

OrderClaims_never(k) == FALSE

\* does the in-order scan take handle k: get() returned a value and
\* condition(result) holds
OrderClaims(k) == ~Throws(k) /\ tasks[k].out \in condition

\* rest of the iteration: fut.wait_for(remaining) / fut.wait(), fut.get(),
\* condition(result); a failed task is caught and the loop goes on; after
\* the last task the function returns nullopt
execute_order_with_wait ==
    /\ pc = "order_wait"
    /\ Ready(i) \/ (timeout > 0 /\ now >= deadline)
    /\ IF Ready(i)
         THEN /\ observed' = [observed EXCEPT
                                ![i] = IF Throws(i) THEN "failed" ELSE "ready"]
              /\ UNCHANGED broke
              /\ IF OrderClaims(i)
                   THEN /\ pc' = "done"
                        /\ ret' = Pair(i - 1, tasks[i].name, tasks[i].out)
                        /\ UNCHANGED i
                   ELSE /\ i' = i + 1
                        /\ IF i = N
                             THEN pc' = "done" /\ ret' = Nullopt
                             ELSE pc' = "order_loop" /\ UNCHANGED ret
         ELSE /\ pc' = "done"
              /\ ret' = OrderOnTimeout(i)
              /\ broke' = i
              /\ observed' = [observed EXCEPT ![i] = "pending"]
              /\ UNCHANGED i
    /\ UNCHANGED <<tasks, op, timeout, condition, now, deadline, futures,
                   results, mon_pc, mon_i, promise, found, result_index,
                   completed, first, comparator, fn>>

\* ----------------------------- hyp::OrderWith / aux::getOrderWithResultPair
\* aux::transform launches every unit; the evaluator creates the promise,
\* the found flag and the detached in-order thread, then blocks on resfut
Call_OrderWith(c) ==
    /\ pc = "idle"
    /\ op' = "OrderWith"
    /\ condition' = c
    /\ pc' = "OrderWith_get"
    /\ futures' = Launch
    /\ mon_pc' = "order"
    /\ mon_i' = 1
    /\ observed' = [k \in 1..N |-> "unseen"]
    /\ UNCHANGED <<tasks, timeout, now, deadline, i, results, promise, found,
                   result_index, completed, ret, broke, first, comparator, fn>>

OrderBlocks_never(k) == FALSE

\* funcs[k].get() blocks the in-order thread while handle k is pending
OrderBlocks(k) == ~Ready(k)

\* one iteration of for (i = 0; i < count; i++), or the tail after the loop:
\* set_value(make_pair(count, nullopt))
getOrderWithResultPair_step ==
    /\ op = "OrderWith"
    /\ mon_pc = "order"
    /\ IF mon_i <= N
         THEN /\ ~OrderBlocks(mon_i)
              /\ observed' = [observed EXCEPT ![mon_i] = AllSee(mon_i)]
              /\ IF Ready(mon_i) /\ OrderClaims(mon_i) /\ ~found
                   THEN /\ found' = TRUE
                        /\ promise' = [state |-> "value", idx |-> mon_i]
                        /\ mon_pc' = "exit"
                        /\ UNCHANGED mon_i
                   ELSE /\ mon_i' = mon_i + 1
                        /\ UNCHANGED <<found, promise, mon_pc>>
         ELSE /\ mon_pc' = "exit"
              /\ found' = TRUE
              /\ promise' = IF found THEN promise
                            ELSE [state |-> "nomatch", idx |-> N]
              /\ UNCHANGED <<mon_i, observed>>
    /\ UNCHANGED <<tasks, pc, op, timeout, condition, now, deadline, futures,
                   i, results, result_index, completed, ret, broke, first, comparator, fn>>

NoMatchAt_minusOne(n) == [NoRet EXCEPT !.kind = "nomatch", !.idx = -1]

\* the no-match pair of OrderWith: (count, nullopt)
NoMatchAt(n) == [NoRet EXCEPT !.kind = "nomatch", !.idx = n]

\* return resfut.get(): the pair stored by the in-order thread
OrderWith_get ==
    /\ pc = "OrderWith_get"
    /\ promise.state # "unset"
    /\ pc' = "done"
    /\ ret' = IF promise.state = "value"
                THEN Pair(promise.idx - 1, "", tasks[promise.idx].out)
                ELSE NoMatchAt(promise.idx)
    /\ UNCHANGED <<tasks, op, timeout, condition, now, deadline, futures, i,
                   results, mon_pc, mon_i, promise, found, result_index,
                   completed, observed, broke, first, comparator, fn>>

\* ------------- hyp::OrderWith with a deadline (the overload of the earlier
\* header revision): the same entry with start_time and timeout handed to
\* the thread
Call_OrderWith_timeout(c, t) ==
    /\ pc = "idle"
    /\ op' = "OrderWith_timeout"
    /\ condition' = c
    /\ timeout' = t
    /\ deadline' = now + t
    /\ pc' = "OrderWith_get"
    /\ futures' = Launch
    /\ mon_pc' = "order_poll"
    /\ mon_i' = 1
    /\ UNCHANGED <<tasks, now, i, results, promise, found, result_index,
                   completed, ret, observed, broke, first, comparator, fn>>

\* one iteration of the loop of that revision: break when elapsed >= timeout,
\* else wait_for(1ms) and, when ready, get() and checkFun; after the loop
\* (exhausted or broken out of) set_value(make_pair(count, nullopt))
getOrderWithResultPair_timeout_step ==
    /\ op = "OrderWith_timeout"
    /\ mon_pc = "order_poll"
    /\ IF mon_i <= N /\ ~(timeout > 0 /\ now >= deadline)
         THEN /\ UNCHANGED broke
              /\ IF Ready(mon_i) /\ OrderClaims(mon_i) /\ ~found
                   THEN /\ found' = TRUE
                        /\ promise' = [state |-> "value", idx |-> mon_i]
                        /\ mon_pc' = "exit"
                        /\ UNCHANGED mon_i
                   ELSE /\ mon_i' = mon_i + 1
                        /\ UNCHANGED <<found, promise, mon_pc>>
         ELSE /\ mon_pc' = "exit"
              /\ found' = TRUE
              /\ promise' = IF found THEN promise
                            ELSE [state |-> "nomatch", idx |-> N]
              /\ broke' = IF mon_i <= N THEN mon_i ELSE broke
              /\ UNCHANGED mon_i
    /\ UNCHANGED <<tasks, pc, op, timeout, condition, now, deadline, futures,
                   i, results, result_index, completed, ret, observed, first, comparator, fn>>

\* ------------------------------------------------ comparators and reductions
\* the comparator arguments: a < b, a > b, a <= b (not a strict order) and
\* a + 1 < b (a strict order whose ties are not transitive)
Comparators == {"lt", "gt", "le", "ll"}

Better(c, a, b) ==
    CASE c = "lt" -> a < b
      [] c = "gt" -> a > b
      [] c = "le" -> a <= b
      [] c = "ll" -> a + 1 < b

\* the loop of execute_best: best = results[0]; for i = 1 .. size-1:
\* if comparator(results[i].second, best.second) best = results[i];
\* the position of best in a non-empty list
RECURSIVE BestScanFrom(_, _, _, _)
BestScanFrom(items, c, j, best) ==
    IF j > Len(items) THEN best
    ELSE BestScanFrom(items, c, j + 1,
                      IF Better(c, items[j].val, items[best].val)
                        THEN j ELSE best)

BestScan_keepFirst(items, c) == 1

BestScan(items, c) == BestScanFrom(items, c, 2, 1)

\* std::min_element(first, last, comp): smallest = first; while (++first !=
\* last) if (comp(*first, *smallest)) smallest = first; the position of
\* smallest in a non-empty list
RECURSIVE min_element_from(_, _, _, _)
min_element_from(items, c, j, smallest) ==
    IF j > Len(items) THEN smallest
    ELSE min_element_from(items, c, j + 1,
                          IF Better(c, items[j].val, items[smallest].val)
                            THEN j ELSE smallest)

min_element_lastOfTies(items, c) ==
    LET j == min_element_from(items, c, 2, 1)
        S == {m \in 1..Len(items) :
                /\ ~Better(c, items[m].val, items[j].val)
                /\ ~Better(c, items[j].val, items[m].val)}
    IN  IF S = {} THEN j ELSE CHOOSE m \in S : \A x \in S : x <= m

min_element(items, c) == min_element_from(items, c, 2, 1)

\* a bare value handed back by a unit; idx keeps the position it came from
Value(k, v) == [NoRet EXCEPT !.kind = "value", !.idx = k, !.val = v]

\* -------------------------------------------------- TaskGroup::execute_best
\* entry: results = execute_all(args..., timeout), whose entry short-circuits
\* on an empty registry; results.empty() then gives nullopt.  The comparator
\* argument is not read before execute_all has returned: it is drawn where
\* it is first used.
Call_execute_best(t) ==
    /\ pc = "idle"
    /\ op' = "execute_best"
    /\ timeout' = t
    /\ IF N = 0
         THEN /\ pc' = "done"
              /\ ret' = Nullopt
              /\ UNCHANGED <<futures, deadline, i, observed>>
         ELSE /\ pc' = "all_loop"
              /\ futures' = Launch
              /\ deadline' = now + t
              /\ i' = 1
              /\ observed' = [k \in 1..N |-> "unseen"]
              /\ UNCHANGED ret
    /\ UNCHANGED <<tasks, condition, now, results, mon_pc, mon_i, promise,
                   found, result_index, completed, broke, first,
                   comparator, fn>>

BestOf_needsTwo(items, c) ==
    IF Len(items) <= 1 THEN Nullopt
    ELSE LET e == items[BestScan(items, c)] IN Pair(e.idx, e.name, e.val)

\* what execute_best makes of the list execute_all returned
BestOf(items, c) ==
    IF items = <<>> THEN Nullopt
    ELSE LET e == items[BestScan(items, c)] IN Pair(e.idx, e.name, e.val)

\* the rest of execute_best after execute_all has returned
execute_best_reduce(c) ==
    /\ pc = "best_scan"
    /\ pc' = "done"
    /\ comparator' = c
    /\ ret' = BestOf(ret.items, c)
    /\ UNCHANGED <<tasks, op, timeout, condition, now, deadline, futures, i,
                   results, mon_pc, mon_i, promise, found, result_index,
                   completed, observed, broke, first, fn>>

\* ----------------------------------------------------------------- hyp::Best
\* All(range, args...).then(lambda): get on the composed task runs the All
\* task and hands its vector to the lambda, which is where the comparator
\* is first used
Call_Best ==
    /\ pc = "idle"
    /\ op' = "Best"
    /\ IF N = 0
         THEN /\ pc' = "Best_reduce"
              /\ ret' = List(<<>>)
              /\ UNCHANGED <<futures, i>>
         ELSE /\ pc' = "All_loop"
              /\ futures' = Launch
              /\ i' = 1
              /\ UNCHANGED ret
    /\ UNCHANGED <<tasks, timeout, condition, now, deadline, results, mon_pc,
                   mon_i, promise, found, result_index, completed, observed,
                   broke, first, comparator, fn>>

\* the lambda of Best: throw runtime_error("No results to compare") on an
\* empty vector, else *std::min_element(begin, end, fn)
BestOfAll(items, c) ==
    IF items = <<>> THEN Raised
    ELSE LET e == items[min_element(items, c)] IN Value(e.idx, e.val)

Best_reduce(c) ==
    /\ pc = "Best_reduce"
    /\ pc' = "done"
    /\ comparator' = c
    /\ ret' = BestOfAll(ret.items, c)
    /\ UNCHANGED <<tasks, op, timeout, condition, now, deadline, futures, i,
                   results, mon_pc, mon_i, promise, found, result_index,
                   completed, observed, broke, first, fn>>

\* ------------------------------------------------------- Task::run / get
\* a unit is a Task around one of the registered callables.  get(args) is
\* run(args).get(): one std::async activity is started for the unit
Call_Task_get(k) ==
    /\ pc = "idle"
    /\ k \in 1..N
    /\ op' = "Task_get"
    /\ pc' = "Task_get"
    /\ i' = k
    /\ futures' = [j \in 1..N |-> IF j = k THEN "pending" ELSE "unstarted"]
    /\ UNCHANGED <<tasks, timeout, condition, now, deadline, results, mon_pc,
                   mon_i, promise, found, result_index, completed, ret,
                   observed, broke, first, comparator, fn>>

TaskGetResult_swallow(k) == Value(k - 1, tasks[k].out)

\* shared_future::get() on the settled handle of unit k: the value, or the
\* stored exception rethrown
TaskGetResult(k) == IF Throws(k) THEN Raised ELSE Value(k - 1, tasks[k].out)

\* get() returns once the handle has settled
Task_get ==
    /\ pc = "Task_get"
    /\ Ready(i)
    /\ pc' = "done"
    /\ ret' = TaskGetResult(i)
    /\ UNCHANGED <<tasks, op, timeout, condition, now, deadline, futures, i,
                   results, mon_pc, mon_i, promise, found, result_index,
                   completed, observed, broke, first, comparator, fn>>

\* --------------------------------------------------------------- Task::then
\* the continuations: one that doubles the value and one that throws
Transforms == {"twice", "throws"}

ApplyF(f, v) == IF f = "throws" THEN Fail ELSE 2 * v

\* then(fn) only builds the composed Task (a copy of m_fn and fn in a
\* lambda); nothing is run
Call_then(k, f) ==
    /\ pc = "idle"
    /\ k \in 1..N
    /\ op' = "then"
    /\ pc' = "then_made"
    /\ i' = k
    /\ fn' = f
    /\ futures' = [j \in 1..N |-> "unstarted"]
    /\ observed' = [j \in 1..N |-> "unseen"]
    /\ UNCHANGED <<tasks, timeout, condition, now, deadline, results, mon_pc,
                   mon_i, promise, found, result_index, completed, ret, broke,
                   first, comparator>>

\* get(args) on the composed Task: its lambda starts the inner callable with
\* std::async and blocks in fut.get()
then_run ==
    /\ pc = "then_made"
    /\ pc' = "then_get"
    /\ futures' = [futures EXCEPT ![i] = "pending"]
    /\ UNCHANGED <<tasks, op, timeout, condition, now, deadline, i, results,
                   mon_pc, mon_i, promise, found, result_index, completed, ret,
                   observed, broke, first, comparator, fn>>

ThenResult_noTransform(k, f) ==
    IF Throws(k) THEN Raised ELSE Value(k - 1, tasks[k].out)

ThenResult_swallow(k, f) ==
    IF Throws(k) \/ ApplyF(f, tasks[k].out) = Fail
      THEN Value(k - 1, 0)
      ELSE Value(k - 1, ApplyF(f, tasks[k].out))

\* return fn(fut.get()): fut.get() rethrows the inner failure before fn is
\* called; a failure of fn leaves the lambda as well
ThenResult(k, f) ==
    IF Throws(k) \/ ApplyF(f, tasks[k].out) = Fail
      THEN Raised
      ELSE Value(k - 1, ApplyF(f, tasks[k].out))

\* the inner handle has settled: the composed get returns or raises
then_get ==
    /\ pc = "then_get"
    /\ Ready(i)
    /\ pc' = "done"
    /\ ret' = ThenResult(i, fn)
    /\ observed' = [observed EXCEPT
                      ![i] = IF Throws(i) THEN "failed" ELSE "applied"]
    /\ UNCHANGED <<tasks, op, timeout, condition, now, deadline, futures, i,
                   results, mon_pc, mon_i, promise, found, result_index,
                   completed, broke, first, comparator, fn>>

\* ------------------------------------------------------------------- system
\* names are opaque: only their equality matters, so a registration uses a
\* name that is already registered or the next unused one
NewNames ==
    LET used == {tasks[k].name : k \in 1..N}
    IN  used \cup {NameOrder[j] : j \in {Cardinality(used) + 1}
                                           \cap DOMAIN NameOrder}

Next ==
    \/ \E nm \in NewNames, out \in Outs : add_function(nm, out)
    \/ \E k \in 1..MaxN : Settle(k)
    \/ Tick
    \/ Return
    \/ \E t \in 0..MaxTime : Call_execute_all(t)
    \/ execute_all_step
    \/ Call_All
    \/ All_step
    \/ Call_Any
    \/ getAnyResultPair_step
    \/ Any_get
    \/ \E c \in SUBSET Values : Call_AnyWith(c)
    \/ getAnyWithResultPair_step
    \/ AnyWith_get
    \/ \E t \in 0..MaxTime : Call_execute_any(t)
    \/ execute_any_monitor
    \/ execute_any_result
    \/ execute_any_timeout
    \/ \E c \in SUBSET Values, t \in 0..MaxTime : Call_execute_any_with(c, t)
    \/ execute_any_with_lock
    \/ execute_any_with_monitor
    \/ execute_any_with_result
    \/ execute_any_with_timeout
    \/ \E c \in SUBSET Values, t \in 0..MaxTime : Call_execute_order_with(c, t)
    \/ execute_order_with_run
    \/ execute_order_with_wait
    \/ \E c \in SUBSET Values : Call_OrderWith(c)
    \/ getOrderWithResultPair_step
    \/ OrderWith_get
    \/ \E c \in SUBSET Values, t \in 1..MaxTime : Call_OrderWith_timeout(c, t)
    \/ getOrderWithResultPair_timeout_step
    \/ \E t \in 0..MaxTime : Call_execute_best(t)
    \/ \E c \in Comparators : execute_best_reduce(c)
    \/ Call_Best
    \/ \E c \in Comparators : Best_reduce(c)
    \/ \E k \in 1..MaxN : Call_Task_get(k)
    \/ Task_get
    \/ \E k \in 1..MaxN, f \in Transforms : Call_then(k, f)
    \/ then_run
    \/ then_get

Spec == Init /\ [][Next]_vars

\* steps of the calling thread and of the monitor thread
CallerStep ==
    \/ execute_all_step \/ All_step \/ Any_get \/ AnyWith_get
    \/ execute_any_result \/ execute_any_timeout
    \/ execute_any_with_lock
    \/ execute_any_with_result \/ execute_any_with_timeout
    \/ execute_order_with_run \/ execute_order_with_wait \/ OrderWith_get
    \/ \E c \in Comparators : execute_best_reduce(c) \/ Best_reduce(c)
    \/ Task_get \/ then_run \/ then_get

MonitorStep ==
    \/ getAnyResultPair_step \/ getAnyWithResultPair_step
    \/ execute_any_monitor \/ execute_any_with_monitor
    \/ getOrderWithResultPair_step \/ getOrderWithResultPair_timeout_step

\* every started thread keeps being scheduled, every candidate activity
\* finishes, and time passes
FairSpec ==
    /\ Spec
    /\ WF_vars(CallerStep)
    /\ WF_vars(MonitorStep)
    /\ WF_vars(Tick)
    /\ \A k \in 1..MaxN : WF_vars(Settle(k))

\* ------------------------------------------ the reductions on their own
MaxLen == 3        \* longest collected list handed to a reduction
MaxElem == 3       \* its values are 1..MaxElem

\* the registries of up to MaxLen candidates that return a value
Collected ==
    UNION {[1..n -> [name : {"a"}, out : 1..MaxElem]] : n \in 0..MaxLen}

\* every candidate has settled and was collected; the evaluation stands
\* right before the reduction of execute_best or of hyp::Best
BestInit ==
    /\ tasks \in Collected
    /\ op \in {"execute_best", "Best"}
    /\ pc = IF op = "Best" THEN "Best_reduce" ELSE "best_scan"
    /\ futures = [k \in 1..Len(tasks) |-> "settled"]
    /\ results = [k \in 1..Len(tasks) |->
                    IF op = "Best" THEN CEntry(k) ELSE Entry(k)]
    /\ ret = List(results)
    /\ i = Len(tasks) + 1
    /\ observed = IF op = "Best" THEN <<>>
                  ELSE [k \in 1..Len(tasks) |-> "ready"]
    /\ timeout = 0 /\ condition = {} /\ now = 0 /\ deadline = 0
    /\ mon_pc = "none" /\ mon_i = 0 /\ promise = Unset /\ found = FALSE
    /\ result_index = 0 /\ completed = FALSE /\ broke = 0
    /\ first = NoFirst /\ comparator = "" /\ fn = ""

BestNext ==
    \/ \E c \in Comparators : execute_best_reduce(c)
    \/ \E c \in Comparators : Best_reduce(c)

BestSpec == BestInit /\ [][BestNext]_vars

\* ----------------------------------- one observation window of the Any scan
MaxScan == 3       \* most handles the evaluator of Any scans

\* the evaluator of hyp::Any / execute_any starts on handles of which some
\* have already settled; none settles while it scans
AnyScanInit ==
    /\ tasks \in UNION {[1..n -> [name : {"a"}, out : Outs]] : n \in 1..MaxScan}
    /\ op \in {"Any", "execute_any"}
    /\ futures \in [1..Len(tasks) -> {"pending", "settled"}]
    /\ pc = IF op = "Any" THEN "Any_get" ELSE "any_wait"
    /\ mon_pc = IF op = "Any" THEN "scan" ELSE "poll"
    /\ mon_i = 1
    /\ observed = IF op = "Any" THEN [k \in 1..Len(tasks) |-> "unseen"]
                  ELSE <<>>
    /\ timeout = 0 /\ condition = {} /\ now = 0 /\ deadline = 0 /\ i = 0
    /\ results = <<>> /\ promise = Unset /\ found = FALSE
    /\ result_index = 0 /\ completed = FALSE /\ ret = NoRet /\ broke = 0
    /\ first = NoFirst /\ comparator = "" /\ fn = ""

AnyScanNext ==
    \/ getAnyResultPair_step
    \/ Any_get
    \/ execute_any_monitor
    \/ execute_any_result

AnyScanSpec == AnyScanInit /\ [][AnyScanNext]_vars

\* ------------------------------------------------------------- properties
Done == pc = "done"
Cands == 1..N
NoDeadline == timeout = 0

\* the registry entries of the candidates in S, in launch order
EntriesOf(S) ==
    LET ks == SelectSeq([k \in 1..N |-> k], LAMBDA k : k \in S)
    IN  [j \in 1..Len(ks) |-> Entry(ks[j])]

\* the same for the composite policies, which return bare values
CEntriesOf(S) ==
    LET ks == SelectSeq([k \in 1..N |-> k], LAMBDA k : k \in S)
    IN  [j \in 1..Len(ks) |-> CEntry(ks[j])]

\* the candidates the scan of execute_all found ready with a value
SeenReady == {k \in Cands : observed[k] = "ready"}

\* C1: Any never reports a failed handle and does not raise because of it:
\* when a candidate fails and another candidate has settled ready (and no
\* deadline has expired), hyp::Any / execute_any returns a ready candidate's
\* index and value.
C1_AnyIgnoresFailed ==
    ( /\ Done
      /\ op \in {"Any", "execute_any"}
      /\ \E k \in Cands : Throws(k)
      /\ \E j \in Cands : ~Throws(j) /\ Ready(j)
      /\ NoDeadline \/ now < deadline )
    => /\ ret.kind = "pair"
       /\ ~Throws(ret.idx + 1)
       /\ ret.val = tasks[ret.idx + 1].out

\* C2: with no deadline, when some candidate settles ready, hyp::Any /
\* execute_any returns a winner: the call never ends with another outcome.
C2_AnyReturnsWinner ==
    ( /\ Done
      /\ op \in {"Any", "execute_any"}
      /\ NoDeadline
      /\ \E k \in Cands : ~Throws(k) )
    => ret.kind = "pair"

\* C3: with no deadline, when no candidate value satisfies the predicate,
\* AnyWith / execute_any_with terminates with the no-match outcome.
C3_AnyWithNoMatchTerminates ==
    ( /\ pc \in {"AnyWith_get", "anywith_wait"}
      /\ NoDeadline
      /\ \A k \in Cands : tasks[k].out \notin condition )
    ~> ( Done /\ ret.kind \in {"nomatch", "nullopt"} )

\* C4: with timeout zero execute_all returns only after every handle has
\* settled, and its result holds an entry for every candidate that settled
\* ready.
C4_AllBlocksUntilSettled ==
    ( Done /\ Released /\ op = "execute_all" /\ NoDeadline /\ N > 0 )
    => /\ \A k \in Cands : Ready(k)
       /\ ret.items = EntriesOf({k \in Cands : ~Throws(k)})

\* C5: N candidates, none failing, no deadline: hyp::All / execute_all
\* return exactly N values, the k-th being the value of the k-th candidate.
C5_AllReturnsNInOrder ==
    ( /\ Done
      /\ op \in {"All", "execute_all"}
      /\ NoDeadline
      /\ \A k \in Cands : ~Throws(k) )
    => /\ ret.kind = "list"
       /\ Len(ret.items) = N
       /\ \A k \in Cands : ret.items[k].val = tasks[k].out

\* C6: a failing candidate is omitted from the result of All and nothing
\* else changes: the call does not raise and the values of the candidates
\* that were visited settled ready are returned in launch order.
C6_AllOmitsFailed ==
    /\ ( Done /\ op = "All" )
       => /\ ret.kind = "list"
          /\ ret.items = CEntriesOf({k \in Cands : ~Throws(k)})
    /\ ( Done /\ op = "execute_all" /\ NoDeadline /\ N > 0 )
       => /\ ret.kind = "list"
          /\ ret.items = EntriesOf(SeenReady)

C10_AllCompleteBeforeDeadline ==
    ( /\ Done /\ op = "execute_all" /\ timeout > 0 /\ now < deadline
      /\ \A k \in Cands : Ready(k) /\ ~Throws(k) )
    => Len(ret.items) = N

\* the lowest-indexed candidate whose value satisfies the predicate
LowestMatch ==
    CHOOSE k \in Cands : OrderClaims(k) /\ \A j \in 1..(k - 1) : ~OrderClaims(j)

\* C11: with no deadline, OrderWith / execute_order_with returns the lowest
\* index whose value satisfies the predicate, whatever the order in which
\* the candidates settled.
C11_OrderWithLowestIndex ==
    ( /\ Done
      /\ op \in {"OrderWith", "execute_order_with"}
      /\ NoDeadline
      /\ \E k \in Cands : OrderClaims(k) )
    => /\ ret.kind = "pair"
       /\ ret.idx + 1 = LowestMatch
       /\ ret.val = tasks[LowestMatch].out

\* the second candidate settled first, both satisfy, the first is returned
C11_Witness ==
    /\ Done /\ op = "OrderWith" /\ N = 2 /\ first = 2
    /\ OrderClaims(1) /\ OrderClaims(2)
    /\ ret.kind = "pair" /\ ret.idx = 0

C15_OrderWithStartsAll ==
    ( /\ op \in {"OrderWith", "execute_order_with"}
      /\ pc \in {"OrderWith_get", "order_wait", "done"} )
    => \A k \in Cands : futures[k] # "unstarted"

\* C16: a value returned by AnyWith / execute_any_with satisfies the
\* predicate and is the value of the settled candidate it is reported for.
C16_AnyWithValueSatisfies ==
    ( Done /\ op \in {"AnyWith", "execute_any_with"} /\ ret.kind = "pair" )
    => /\ ret.val \in condition
       /\ ret.idx + 1 \in Cands
       /\ Ready(ret.idx + 1)
       /\ ret.val = tasks[ret.idx + 1].out

\* under a deadline a value was returned although another candidate's value
\* does not satisfy the predicate
C16_Witness ==
    /\ Done /\ op = "execute_any_with" /\ timeout > 0 /\ ret.kind = "pair"
    /\ \E k \in Cands : ~Throws(k) /\ tasks[k].out \notin condition

\* C17: with no deadline AnyWith reports no-match only after every handle
\* has been consumed; in particular it never reports no-match while a
\* handle that will settle with a satisfying value is still pending.
C17_AnyWithNoMatchOnlyWhenConsumed ==
    ( /\ Done /\ op \in {"AnyWith", "execute_any_with"} /\ NoDeadline
      /\ ret.kind \in {"nomatch", "nullopt"} )
    => \A k \in Cands : ~(~Ready(k) /\ OrderClaims(k))

\* C18: AnyWith does not wait for a lower-indexed pending handle while a
\* higher-indexed handle has settled with a satisfying value: the thread
\* that selects the winner is never blocked on the pending one.
C18_AnyWithByCompletionOrder ==
    \A a, b \in Cands :
       ( /\ op \in {"AnyWith", "execute_any_with"}
         /\ pc \in {"AnyWith_get", "anywith_wait"}
         /\ a < b /\ ~Ready(a)
         /\ Ready(b) /\ OrderClaims(b)
         /\ mon_i = a )
       => mon_pc # "get"

\* C19: when exactly one candidate has settled, ready, and the others are
\* still running (the scan of hyp::Any did not find it pending), Any /
\* execute_any returns that candidate's index and value, at every position
\* and also under a deadline that has not expired.
C19_AnyReturnsOnlySettled ==
    \A k \in Cands :
       ( /\ Done /\ op \in {"Any", "execute_any"}
         /\ NoDeadline \/ now < deadline
         /\ Ready(k) /\ ~Throws(k)
         /\ \A j \in Cands \ {k} : ~Ready(j)
         /\ op = "Any" => observed[k] # "pending" )
       => ret = Pair(k - 1, IF op = "Any" THEN "" ELSE tasks[k].name,
                     tasks[k].out)

\* under a deadline the second of two candidates was the only one settled
C19_Witness ==
    /\ Done /\ op = "execute_any" /\ timeout > 0 /\ now < deadline /\ N = 2
    /\ Ready(2) /\ ~Ready(1)
    /\ ret.kind = "pair" /\ ret.idx = 1

\* C20: when the deadline has expired and no handle has settled ready,
\* execute_any returns the absent optional.
C20_AnyTimeoutNoResult ==
    ( /\ Done /\ op = "execute_any" /\ timeout > 0 /\ now >= deadline
      /\ \A k \in Cands : ~(Ready(k) /\ ~Throws(k)) )
    => ret.kind = "nullopt"

\* C21: when every candidate settles failed, hyp::Any / execute_any ends
\* with a no-result value and does not raise to its caller.
C21_AnyAllFailedNoRaise ==
    ( /\ Done
      /\ op \in {"Any", "execute_any"}
      /\ N > 0
      /\ \A k \in Cands : Throws(k) )
    => ret.kind # "raise"

\* the values a comparator is applied to
CmpDomain == 0..(IF MaxElem > MaxVal THEN MaxElem ELSE MaxVal)

Tied(c, a, b) == ~Better(c, a, b) /\ ~Better(c, b, a)

\* irreflexive and transitive: "strictly preferred"
StrictOrder(c) ==
    /\ \A a \in CmpDomain : ~Better(c, a, a)
    /\ \A a, b, d \in CmpDomain :
         Better(c, a, b) /\ Better(c, b, d) => Better(c, a, d)

\* being tied is transitive, as it is for every strict weak order
TiesTransitive(c) ==
    \A a, b, d \in CmpDomain : Tied(c, a, b) /\ Tied(c, b, d) => Tied(c, a, d)

BestReturned == Done /\ op \in {"Best", "execute_best"}
                     /\ ret.kind \in {"pair", "value"}

\* C22 as stated: for every comparator and every collected list, no other
\* collected value is better than the value Best / execute_best returns.
C22_BestHasNoBetter ==
    BestReturned
    => \A j \in 1..Len(results) :
         results[j].idx # ret.idx => ~Better(comparator, results[j].val, ret.val)

\* C22: for every comparator that is a strict order and every collected
\* list, no other collected value is better than the value Best /
\* execute_best returns.
C22_BestHasNoBetterStrict ==
    ( BestReturned /\ StrictOrder(comparator) )
    => \A j \in 1..Len(results) :
         results[j].idx # ret.idx => ~Better(comparator, results[j].val, ret.val)

C22_Witness ==
    /\ BestReturned /\ StrictOrder(comparator)
    /\ \E j \in 1..Len(results) : Better(comparator, ret.val, results[j].val)
    /\ results[1].idx # ret.idx

\* C23 as stated: Best / execute_best returns the lowest launch index among
\* the collected values tied with the returned one.
C23_BestStable ==
    BestReturned
    => \A j \in 1..Len(results) :
         Tied(comparator, results[j].val, ret.val) => ret.idx <= results[j].idx

\* C23: for comparators under which being tied is transitive, Best /
\* execute_best returns the lowest launch index among the collected values
\* tied with the returned one.
C23_BestStableOnWeakOrders ==
    ( BestReturned /\ TiesTransitive(comparator) )
    => \A j \in 1..Len(results) :
         Tied(comparator, results[j].val, ret.val) => ret.idx <= results[j].idx

C23_Witness ==
    /\ BestReturned /\ TiesTransitive(comparator)
    /\ \E j \in 1..Len(results) :
         /\ Tied(comparator, results[j].val, ret.val)
         /\ ret.idx < results[j].idx
    /\ results[1].idx # ret.idx

\* the (name, value) members of a collected list
PairsOf(items) == {Pair(items[j].idx, items[j].name, items[j].val) :
                     j \in 1..Len(items)}

\* C24: execute_best returns absent exactly when the list its execute_all
\* collected in the same call is empty; otherwise it returns one member of
\* that list.
C24_BestAbsentIffEmpty ==
    ( Done /\ op = "execute_best" )
    => /\ ret.kind = "nullopt" <=> results = <<>>
       /\ results # <<>> => ret \in PairsOf(results)

C24_Witness ==
    /\ Done /\ op = "execute_best"
    /\ Len(results) = 1
    /\ ret.kind = "pair"

\* the entry points of the registry and the empty outcome of each
ExecuteOps == {"execute_any", "execute_any_with", "execute_all",
               "execute_best", "execute_order_with"}

EmptyOutcome(o) == IF o = "execute_all" THEN List(<<>>) ELSE Nullopt

\* C25: on an empty registry every execute_* entry point returns its empty
\* outcome at once: the call is never left waiting and no activity and no
\* monitor is started.
C25_EmptyRegistryReturnsAtOnce ==
    ( op \in ExecuteOps /\ N = 0 )
    => /\ Done
       /\ ret = EmptyOutcome(op)
       /\ futures = <<>>
       /\ mon_pc = "none"

C25_Witness ==
    /\ op = "execute_any_with" /\ N = 0 /\ Done

\* C26: every (name, value) pair returned by an execute_* entry point, and
\* every entry of execute_all, carries the name registered at the index of
\* the handle that produced its value.
C26_NamesMatchRegistry ==
    ( Done /\ op \in ExecuteOps )
    => /\ ret.kind = "pair" =>
            /\ ret.name = tasks[ret.idx + 1].name
            /\ ret.val = tasks[ret.idx + 1].out
       /\ \A j \in 1..Len(ret.items) :
            /\ ret.items[j].name = tasks[ret.items[j].idx + 1].name
            /\ ret.items[j].val = tasks[ret.items[j].idx + 1].out

C26_Witness ==
    /\ Done /\ op = "execute_all"
    /\ Len(ret.items) = 2
    /\ ret.items[1].name # ret.items[2].name
    /\ ret.items[1].val # ret.items[2].val

\* C27: Task::get returns the callable's value, or raises when the callable
\* fails: the handle of a failing callable settles failed and reading it
\* raises.
C27_GetReturnsOrRaises ==
    ( Done /\ op = "Task_get" )
    => /\ Ready(i)
       /\ IF tasks[i].out = Fail
            THEN ret.kind = "raise"
            ELSE ret.kind = "value" /\ ret.val = tasks[i].out

C27_Witness ==
    /\ Done /\ op = "Task_get"
    /\ tasks[i].out = Fail
    /\ ret.kind = "raise"

C29_ThenPropagatesFailure ==
    ( Done /\ op = "then" )
    => /\ tasks[i].out = Fail =>
            ret.kind = "raise" /\ observed[i] # "applied"
       /\ ( tasks[i].out # Fail /\ ApplyF(fn, tasks[i].out) = Fail ) =>
            ret.kind = "raise"

C29_Witness ==
    /\ Done /\ op = "then"
    /\ tasks[i].out = Fail
    /\ fn = "twice"
    /\ ret.kind = "raise"

\* the outcome of All / Best when every candidate has been waited for:
\* fixed by the registry (and the comparator) alone
SettledOutcome ==
    LET ok == {k \in Cands : ~Throws(k)}
    IN  CASE op = "execute_all" -> List(EntriesOf(ok))
          [] op = "execute_best" -> BestOf(EntriesOf(ok), comparator)
          [] op = "All" -> IF ok = Cands THEN List(CEntriesOf(ok)) ELSE Raised
          [] op = "Best" -> IF ok = Cands
                              THEN BestOfAll(CEntriesOf(ok), comparator)
                              ELSE Raised
          [] OTHER -> NoRet

\* C30: with no deadline the outcome of All / execute_all and of Best /
\* execute_best is the same in every run: it does not depend on when the
\* candidates settle, so it is the outcome of the run in which all of them
\* have settled.
C30_AllBestDeterministic ==
    ( /\ Done
      /\ op \in {"execute_all", "execute_best", "All", "Best"}
      /\ NoDeadline )
    => ret = SettledOutcome

\* C31: a policy call returns without waiting for the candidates that are
\* still pending: once Any / execute_any has its winner, or the deadline of
\* execute_any / execute_all has expired, the call is left while candidates
\* are pending.
C31_ReturnsWithoutWaiting ==
    ( /\ Done
      /\ op \in {"Any", "execute_any", "execute_all"}
      /\ ret.kind = "pair" \/ (timeout > 0 /\ now >= deadline)
      /\ \E k \in Cands : futures[k] = "pending" )
    => ENABLED Return

\* the handles that are settled ready, with a value
ReadyOnes == {k \in Cands : Ready(k) /\ ~Throws(k)}

\* C32: when several handles are settled ready as the evaluator of Any scans
\* them, the one with the lowest index among them is reported as the winner.
C32_AnyLowestReadyWins ==
    ( /\ Done
      /\ op \in {"Any", "execute_any"}
      /\ Cardinality(ReadyOnes) >= 2 )
    => /\ ret.kind = "pair"
       /\ \A k \in ReadyOnes : ret.idx + 1 <= k

\* C33: in every evaluation of Any, AnyWith and OrderWith the result slot is
\* written at most once, whatever the order in which the handles settle: a
\* slot that holds a winner (or the no-match / all-failed outcome) keeps it,
\* and the call reports exactly what the slot holds.
C33_ClaimedOnce ==
    [][ ( op \in {"Any", "AnyWith", "OrderWith"} ) =>
          /\ ( promise # Unset /\ pc' # "idle" ) => promise' = promise
          /\ Done => /\ ret.kind = "pair" <=> promise.state = "value"
                     /\ ret.kind = "pair" => ret.idx = promise.idx - 1 ]_vars

C33_Witness ==
    /\ op \in {"Any", "AnyWith", "OrderWith"}
    /\ Done
    /\ ret.kind = "pair"
    /\ \E k \in Cands : /\ k # promise.idx
                        /\ Ready(k) /\ ~Throws(k)
                        /\ op = "Any" \/ tasks[k].out \in condition

\* C34: the deadline of execute_order_with / execute_all is the one instant
\* entry + timeout (the clock of the model starts at entry): it is the same
\* at every handle, a wait that has reached it is over, and once the budget
\* has run out at a handle the evaluation ends without a later handle being
\* started or looked at.
C34_DeadlineFixedAtEntry ==
    ( op \in {"execute_order_with", "execute_all"} /\ timeout > 0 /\ N > 0 )
    => /\ deadline = timeout
       /\ ( pc = "order_wait" /\ now >= deadline )
            => ENABLED execute_order_with_wait
       /\ broke # 0 =>
            /\ Done
            /\ now >= timeout
            /\ \A k \in Cands : k > broke =>
                 IF op = "execute_all" THEN observed[k] = "unseen"
                 ELSE futures[k] = "unstarted"

C34_Witness ==
    /\ Done /\ op = "execute_order_with" /\ timeout > 0
    /\ N = 2
    /\ observed[1] \in {"ready", "failed"}
    /\ now > 0
    /\ broke = 2

\* the index the in-order scan stands at
ScanAt == IF op = "OrderWith" THEN mon_i ELSE i

\* the predicate has been applied to the value of handle k
Applied(k) == observed[k] = "ready"

\* C35: OrderWith / execute_order_with applies the predicate to the handles
\* in increasing index order, at most once each, and never beyond the
\* winner; a handle that settled failed is skipped without the predicate
\* and the scan goes on with the next index.
C35_OrderWithInspectsInOrder ==
    ( op \in {"OrderWith", "execute_order_with"} /\ N > 0 )
    => /\ \A k \in Cands : observed[k] # "unseen" =>
            \A j \in 1..(k - 1) : observed[j] \in {"ready", "failed"}
       /\ \A k \in Cands : observed[k] \in {"ready", "failed"} =>
            \/ ScanAt > k
            \/ ScanAt = k /\ Applied(k) /\ tasks[k].out \in condition
       /\ \A k \in Cands : Applied(k) => tasks[k].out # Fail
       /\ \A k \in Cands : observed[k] = "failed" => tasks[k].out = Fail
       /\ \A k \in Cands : ( Applied(k) /\ tasks[k].out \in condition ) =>
            \A j \in (k + 1)..N : observed[j] = "unseen"
       /\ ( Done /\ ret.kind = "pair" ) =>
            /\ Applied(ret.idx + 1)
            /\ \A j \in (ret.idx + 2)..N : observed[j] = "unseen"
       /\ Done =>
            \A k \in 1..(N - 1) : observed[k] = "failed" =>
               observed[k + 1] # "unseen" \/ broke = k + 1

C35_Witness ==
    /\ Done /\ op = "execute_order_with" /\ N = 2
    /\ observed[1] = "failed"
    /\ observed[2] = "ready"
    /\ ret.kind = "pair" /\ ret.idx = 1

\* the policies that launch every unit before they look at any handle
FanOut == {"execute_any", "execute_any_with", "execute_all", "execute_best",
           "All", "Best", "Any", "AnyWith", "OrderWith"}

\* C36: the launcher produces exactly N handles for N units, every one of
\* them started, and handle i stays the handle of unit i for the whole
\* evaluation: whatever is reported for index i is the outcome of unit i.
C36_LauncherInvariant ==
    ( op \in FanOut )
    => /\ DOMAIN futures = 1..N
       /\ \A k \in Cands : futures[k] \in {"pending", "settled"}
       /\ ( Done /\ ret.kind = "pair" ) =>
            /\ ret.idx + 1 \in Cands
            /\ ret.val = tasks[ret.idx + 1].out
       /\ \A j \in 1..Len(results) :
            /\ results[j].idx + 1 \in Cands
            /\ results[j].val = tasks[results[j].idx + 1].out

C36_Witness ==
    /\ Done /\ op = "Any" /\ N = 2
    /\ tasks[1].out \notin {Fail, tasks[2].out}
    /\ ret.kind = "pair" /\ ret.idx = 1

\* C37: once an execute_any / execute_any_with call has executed its return,
\* on a timeout in particular, its monitor thread has finished: no thread is
\* left that reads or writes the locals of the call.
C37_NoMonitorAfterReturn ==
    ( Done /\ op \in {"execute_any", "execute_any_with"} )
    => mon_pc \notin {"poll", "get"}

\* C38: no lost wake-up in execute_any_with: when the monitor has recorded a
\* match, before or after the caller entered the wait, the caller is not
\* blocked in the wait and cannot time out; it goes on to return the match.
C38_NoLostWakeup ==
    /\ ( op = "execute_any_with" /\ ~Done /\ result_index # 0 )
       => /\ pc \in {"anywith_lock", "anywith_woken"}
          /\ completed
          /\ ENABLED (execute_any_with_lock \/ execute_any_with_result)
          /\ ~ENABLED execute_any_with_timeout
    /\ ( op = "execute_any_with" /\ Done /\ ret.kind = "pair" )
       => ret.idx = result_index - 1

\* the match was recorded before the caller took the mutex, and the deadline
\* has passed as well
C38_Witness ==
    /\ op = "execute_any_with" /\ pc = "anywith_lock"
    /\ result_index # 0
    /\ timeout > 0 /\ now >= deadline

\* C39: no execute_* call modifies the registry: from the call to the return
\* (on a timeout or with failing candidates as well) every step leaves the
\* list of entries as it is, so the next call starts from the same entries.
C39_RegistryUnchanged ==
    [][ ( op \in ExecuteOps \/ op' \in ExecuteOps ) => tasks' = tasks ]_vars

C39_Witness ==
    /\ Done /\ op = "execute_any" /\ N = 2
    /\ timeout > 0 /\ ret.kind = "nullopt"
    /\ tasks[1].out = Fail

====
